---------------------------- MODULE Spec2Model ----------------------------
(* A model of initializeConnectionMatrices                                  *)
(* (src/support_functions/connect_mat.py).                                  *)
(*                                                                          *)
(* The function is one straight-line pass over a parameter object mP: it    *)
(* reads hyperparameters, consumes pseudo-random draws and assigns derived  *)
(* fields to mP in place.  The model keeps mP as a function from field      *)
(* names to values whose domain grows with every assignment, pc as the      *)
(* position in the function body, loc as the function's local variables     *)
(* and err as the exception that ended the call ("none" while running).     *)
(*                                                                          *)
(* Real numbers are modelled by integers: hyperparameters and standard      *)
(* normal draws are small integers, so products and sums are exact.         *)
(* Values that went through a float division are kept as a pair            *)
(* [num, den]; den = 0 is the NaN that numpy produces for 0/0.              *)
(* Uniform draws r.rand(..) < p are a free choice per entry when 0 < p < 1, *)
(* always TRUE when p >= 1 and always FALSE when p <= 0.                    *)
(*                                                                          *)
(* The body is checked in slices, one specification per slice, each slice   *)
(* starting from the inputs its lines read:                                 *)
(*   SpecF2R      lines 27-60    F2Rbinary, F2R                             *)
(*   SpecR2G      lines 73-82    R2G, R2P, R2L, R2PIcol                     *)
(*   SpecL2G      lines 85-100   L2G and its sparsity correction            *)
(*   SpecLateral  lines 85-118   L2G, L2R, L2P, L2L, L2PI                   *)
(*   SpecPI       lines 143-152, 196-198  G2PI and what is computed from it *)
(*   SpecGamma    lines 67-71, 212-227    the gamma parameter derivation    *)
(*   Spec         the whole body, every array modelled by its shape         *)
(****************************************************************************)
EXTENDS Integers, Sequences, FiniteSets, TLC

VARIABLES pc, mP, loc, err

vars == <<pc, mP, loc, err>>

----------------------------------------------------------------------------
(* Bounds of the model.                                                     *)

\* largest mean / multiplier hyperparameter
MaxMu == 2
\* largest std hyperparameter
MaxStd == 2
\* standard normal draws range over -MaxDraw..MaxDraw
MaxDraw == 1
\* largest nR, nF in the F2R slice
MaxN == 2
\* largest RperFRawNum
MaxRounds == 2
\* largest nG in the L2G slice
MaxG == 3
\* largest population size in the slices that keep several nG x nG matrices
MaxSmall == 2
\* largest population size in the model of the whole body
MaxPop == 2
\* the outlier ceiling of the noise vectors
OutlierCeiling == 15
\* the precision getcontext().prec sets for Decimal arithmetic
DecimalPrec == 4

Mus == 1..MaxMu
Stds == 0..MaxStd
Normals == (-MaxDraw)..MaxDraw
\* fill ratios and connection probabilities, as <<numerator, denominator>>
Fractions == {<<0, 1>>, <<1, 4>>, <<1, 2>>, <<3, 4>>, <<1, 1>>}

----------------------------------------------------------------------------
(* numpy helpers                                                            *)

Idx(n) == 0..(n - 1)

Cells(n, m) == Idx(n) \X Idx(m)

\* np.zeros((n, m))
Zeros(n, m) == [c \in Cells(n, m) |-> 0]

\* np.maximum(0, x) on one entry
Max0(x) == IF x < 0 THEN 0 ELSE x

\* np.ceil(a / n) for a >= 0, n > 0
CeilDiv(a, n) == (a + n - 1) \div n

\* the outcomes of r.rand(n, m) < p, with p = pNum / pDen, pDen > 0
RandLess(n, m, pNum, pDen) ==
    IF pNum <= 0 THEN {[c \in Cells(n, m) |-> FALSE]}
    ELSE IF pNum >= pDen THEN {[c \in Cells(n, m) |-> TRUE]}
    ELSE [Cells(n, m) -> BOOLEAN]

\* the outcomes of r.normal(0, 1, (n, m))
RandNormal(n, m) == [Cells(n, m) -> Normals]

\* a boolean used as a number
B2I(b) == IF b THEN 1 ELSE 0

\* M.sum(axis=1)[i] for an n x m integer matrix
RECURSIVE RowSumTo(_, _, _)
RowSumTo(M, i, m) == IF m = 0 THEN 0 ELSE RowSumTo(M, i, m - 1) + M[<<i, m - 1>>]

\* mP.<name> = value
Assign(rec, name, value) == (name :> value) @@ rec

----------------------------------------------------------------------------
(* Lines 27-60: the binary mask F2Rbinary and the weights F2R.              *)

InputsF2R ==
    { [nR |-> nR, nF |-> nF, RperFFrMu |-> fr, RperSFrMu |-> <<1, 2>>,
       makeFeaturesOrthogonalFlag |-> flag,
       RperFRawNum |-> k, F2Rmu |-> mu, F2Rstd |-> sd] :
         nR \in 1..MaxN, nF \in 1..MaxN, fr \in {0, 1}, flag \in BOOLEAN,
         k \in 0..MaxRounds, mu \in Mus, sd \in Stds }

\* a feature is given at most as many receptors as there are
FeasibleF2R(in) == in.RperFRawNum <= in.nR

InitF2R ==
    /\ pc = "mask"
    /\ mP \in {in \in InputsF2R : FeasibleF2R(in)}
    /\ loc = [stage |-> "entry"]
    /\ err = "none"

\* line 29: mP.F2Rbinary = r.rand(mP.nR, mP.nF) < mP.RperSFrMu
MaskProbabilistic ==
    /\ pc = "mask" /\ err = "none"
    /\ mP.RperFFrMu > 0
    /\ \E b \in RandLess(mP.nR, mP.nF, mP.RperSFrMu[1], mP.RperSFrMu[2]) :
         mP' = Assign(mP, "F2Rbinary", [c \in Cells(mP.nR, mP.nF) |-> B2I(b[c])])
    /\ pc' = "orthogonal"
    /\ UNCHANGED <<loc, err>>

\* lines 31-41: the branch behind makeFeaturesOrthogonalFlag.  A row with
\* more than one 1 reaches r.rand(1, c) with an index array c: a TypeError.
Orthogonalize ==
    /\ pc = "orthogonal" /\ err = "none"
    /\ IF /\ mP.makeFeaturesOrthogonalFlag
          /\ \E i \in Idx(mP.nR) : RowSumTo(mP.F2Rbinary, i, mP.nF) > 1
       THEN /\ err' = "TypeError"
            /\ pc' = "raised"
       ELSE /\ pc' = "weights"
            /\ err' = err
    /\ UNCHANGED <<mP, loc>>

\* lines 44-47: the fixed-number branch before its loops
MaskFixedInit ==
    /\ pc = "mask" /\ err = "none"
    /\ mP.RperFFrMu <= 0
    /\ mP' = Assign(mP, "F2Rbinary", Zeros(mP.nR, mP.nF))
    /\ loc' = [stage |-> "loops",
               counts |-> [r \in Idx(mP.nR) |-> 0],
               maxFperR |-> CeilDiv(mP.nF * mP.RperFRawNum, mP.nR),
               i |-> 0, j |-> 0]
    /\ pc' = IF mP.RperFRawNum > 0 /\ mP.nF > 0 THEN "assign" ELSE "weights"
    /\ err' = err

\* every row offered, whatever its count
AnyRow(counts, maxFperR) == DOMAIN counts

\* line 51: inds = np.nonzero(counts < maxFperR)[0]
Candidates(counts, maxFperR) == {r \in DOMAIN counts : counts[r] < maxFperR}

\* lines 49-54: one pass of the inner loop body
AssignOne ==
    /\ pc = "assign" /\ err = "none"
    /\ LET inds == Candidates(loc.counts, loc.maxFperR)
           last == loc.j = mP.nF - 1
           ni == IF last THEN loc.i + 1 ELSE loc.i
           nj == IF last THEN 0 ELSE loc.j + 1
       IN IF inds = {}
          THEN \* np.random.randint(0) raises ValueError
               /\ err' = "ValueError"
               /\ pc' = "raised"
               /\ UNCHANGED <<mP, loc>>
          ELSE \E r \in inds :
               /\ loc' = [loc EXCEPT !.counts[r] = @ + 1, !.i = ni, !.j = nj]
               /\ mP' = [mP EXCEPT !.F2Rbinary[<<r, loc.j>>] = 1]
               /\ pc' = IF ni < mP.RperFRawNum THEN "assign" ELSE "weights"
               /\ err' = err

\* line 59-60 on one entry
F2REntry(mu, sd, b, z) == Max0((mu * b + sd * z) * b)

\* lines 57-60: mask a matrix of gaussian weights
WeightsF2R ==
    /\ pc = "weights" /\ err = "none"
    /\ \E rand_mat \in RandNormal(mP.nR, mP.nF) :
         mP' = Assign(mP, "F2R",
                  [c \in Cells(mP.nR, mP.nF) |->
                     F2REntry(mP.F2Rmu, mP.F2Rstd, mP.F2Rbinary[c], rand_mat[c])])
    /\ pc' = "doneF2R"
    /\ UNCHANGED <<loc, err>>

NextF2R ==
    \/ MaskProbabilistic
    \/ Orthogonalize
    \/ MaskFixedInit
    \/ AssignOne
    \/ WeightsF2R

SpecF2R == InitF2R /\ [][NextF2R]_vars

\* lines 27-54 alone: the construction of the mask F2Rbinary
NextMask ==
    \/ MaskProbabilistic
    \/ Orthogonalize
    \/ MaskFixedInit
    \/ AssignOne

SpecMask == InitF2R /\ [][NextMask]_vars

\* M[:, j].sum() for an n x m integer matrix
RECURSIVE ColSumTo(_, _, _)
ColSumTo(M, n, j) == IF n = 0 THEN 0 ELSE ColSumTo(M, n - 1, j) + M[<<n - 1, j>>]

FixedModeDone ==
    /\ pc \in {"weights", "doneF2R"}
    /\ mP.RperFFrMu <= 0

\* C5: in the fixed-number branch, when nR * maxFperR >= nF * RperFRawNum, once
\* the assignment loops have finished every column j of F2Rbinary holds
\* exactly RperFRawNum ones.
C5_ExactInDegree ==
    (FixedModeDone /\ mP.nR * loc.maxFperR >= mP.nF * mP.RperFRawNum)
       => \A j \in Idx(mP.nF) : ColSumTo(mP.F2Rbinary, mP.nR, j) = mP.RperFRawNum

\* the fixed-number branch has set up its counters
InFixedMode ==
    /\ mP.RperFFrMu <= 0
    /\ "F2Rbinary" \in DOMAIN mP

\* C12: in the fixed-number branch with nR >= 1, at every step of the nested
\* loops counts[r] <= maxFperR = ceil(nF*RperFRawNum/nR) for every row r, the
\* candidate set of line 51 is not empty when a pick is made (line 52 never
\* raises), and in the final F2Rbinary no row has more than maxFperR ones.
C12_CapacityRespected ==
    InFixedMode =>
        /\ loc.maxFperR = CeilDiv(mP.nF * mP.RperFRawNum, mP.nR)
        /\ \A r \in Idx(mP.nR) : loc.counts[r] <= loc.maxFperR
        /\ pc = "assign" => Candidates(loc.counts, loc.maxFperR) # {}
        /\ err # "ValueError"
        /\ FixedModeDone =>
             \A r \in Idx(mP.nR) : RowSumTo(mP.F2Rbinary, r, mP.nF) <= loc.maxFperR

\* in the second round of the loops a row is filled to its capacity, so the
\* next pick is made among the remaining rows only
C12_Witness ==
    /\ InFixedMode
    /\ pc = "assign"
    /\ loc.i >= 1
    /\ \E r \in Idx(mP.nR) :
         /\ loc.counts[r] = loc.maxFperR
         /\ RowSumTo(mP.F2Rbinary, r, mP.nF) = loc.maxFperR
    /\ Candidates(loc.counts, loc.maxFperR) # {}

----------------------------------------------------------------------------
(* Lines 73-82: the connection vectors R2G, R2P, R2L, R2PIcol (nG x 1).     *)

InputsR2G ==
    { [nG |-> n, R2Gmu |-> mu, R2Gstd |-> sd, R2Pmult |-> pm, R2Pstd |-> ps,
       R2Lmult |-> MaxMu, R2Lstd |-> ls, R2PImult |-> MaxMu, R2PIstd |-> MaxStd] :
         n \in 1..MaxSmall, mu \in Mus, sd \in Stds, pm \in Mus, ps \in Stds,
         ls \in Stds }

InitR2G ==
    /\ pc = "R2G"
    /\ mP \in InputsR2G
    /\ loc = [stage |-> "entry"]
    /\ err = "none"

\* line 74 on one entry: mu + std * z, with no clamp
R2GEntry(mu, sd, z) == mu + sd * z

\* lines 78, 79, 82 on one entry: ( mult + std * z ) * R2G
ScaledByR2G(mult, sd, z, g) == (mult + sd * z) * g

\* line 74
DrawR2G ==
    /\ pc = "R2G" /\ err = "none"
    /\ \E z \in RandNormal(mP.nG, 1) :
         mP' = Assign(mP, "R2G",
                  [c \in Cells(mP.nG, 1) |-> R2GEntry(mP.R2Gmu, mP.R2Gstd, z[c])])
    /\ pc' = "R2P"
    /\ UNCHANGED <<loc, err>>

\* line 78
DrawR2P ==
    /\ pc = "R2P" /\ err = "none"
    /\ \E z \in RandNormal(mP.nG, 1) :
         mP' = Assign(mP, "R2P",
                  [c \in Cells(mP.nG, 1) |->
                     ScaledByR2G(mP.R2Pmult, mP.R2Pstd, z[c], mP.R2G[c])])
    /\ pc' = "R2L"
    /\ UNCHANGED <<loc, err>>

\* line 79
DrawR2L ==
    /\ pc = "R2L" /\ err = "none"
    /\ \E z \in RandNormal(mP.nG, 1) :
         mP' = Assign(mP, "R2L",
                  [c \in Cells(mP.nG, 1) |->
                     ScaledByR2G(mP.R2Lmult, mP.R2Lstd, z[c], mP.R2G[c])])
    /\ pc' = "R2PIcol"
    /\ UNCHANGED <<loc, err>>

\* line 82
DrawR2PIcol ==
    /\ pc = "R2PIcol" /\ err = "none"
    /\ \E z \in RandNormal(mP.nG, 1) :
         mP' = Assign(mP, "R2PIcol",
                  [c \in Cells(mP.nG, 1) |->
                     ScaledByR2G(mP.R2PImult, mP.R2PIstd, z[c], mP.R2G[c])])
    /\ pc' = "doneR2G"
    /\ UNCHANGED <<loc, err>>

NextR2G ==
    \/ DrawR2G
    \/ DrawR2P
    \/ DrawR2L
    \/ DrawR2PIcol

SpecR2G == InitR2G /\ [][NextR2G]_vars

----------------------------------------------------------------------------
(* Lines 85-118: the lateral matrix L2G, its sparsity correction, and the   *)
(* matrices L2R, L2P, L2L, L2PI scaled from it.                             *)

\* line 88-89 on one entry
L2GEntry(mu, sd, z) == Max0(mu + sd * z)

\* line 90 left out
DiagKept(M) == M

\* line 90: mP.L2G -= np.diag(np.diag(mP.L2G))
ZeroDiag(M) == [c \in DOMAIN M |-> M[c] - (IF c[1] = c[2] THEN M[c] ELSE 0)]

\* M.flatten(): row-major, flat[i * n + j] = M[i, j]
FlattenC(M, n) == [k \in Idx(n * n) |-> M[<<k \div n, k % n>>]]

\* the elements of an array in Fortran index order: of a 1-D array, as they
\* are; of a 2-D array, first index fastest
FortranOrder(a, n, ndim) ==
    [k \in Idx(n * n) |-> IF ndim = 1 THEN a[k] ELSE a[<<k % n, k \div n>>]]

\* line 100: a.reshape((n, n), order="F"): the elements read in Fortran order
\* are placed in Fortran order, M[i, j] = elements[i + j * n]
ReshapeF(a, n, ndim) ==
    LET elems == FortranOrder(a, n, ndim)
    IN [c \in Cells(n, n) |-> elems[c[1] + c[2] * n]]

\* (flat == 0).sum() over the first k entries of a 1-D array
RECURSIVE CountZeros(_, _)
CountZeros(flat, k) ==
    IF k = 0 THEN 0
    ELSE CountZeros(flat, k - 1) + (IF flat[k - 1] = 0 THEN 1 ELSE 0)

\* line 93: numZero = (mP.L2G.flatten()==0).sum() - mP.nG
NumZero(M, n) == CountZeros(FlattenC(M, n), n * n) - n

\* line 94: np.floor( (1-L2Gfr)*(nG**2 - nG) - numZero ), L2Gfr = fr[1]/fr[2]
NumToKill(fr, n, numZero) == (((fr[2] - fr[1]) * (n * n - n)) \div fr[2]) - numZero

\* line 98: mP.L2G[(mP.L2G > 0) & (randList == 1)] = 0
KillSelected(flat, randList) ==
    [k \in DOMAIN flat |-> IF flat[k] > 0 /\ randList[<<k, 0>>] THEN 0 ELSE flat[k]]

InputsL2G(maxG, frs) ==
    { [nG |-> n, L2Gmu |-> mu, L2Gstd |-> sd, L2Gfr |-> fr] :
         n \in 1..maxG, mu \in Mus, sd \in Stds, fr \in frs }

\* every raw draw of L2G survives the clamp of line 89
NoClampedDraw(in) == in.L2Gmu - in.L2Gstd * MaxDraw > 0

InitL2G ==
    /\ pc = "L2G"
    /\ mP \in {in \in InputsL2G(MaxG, Fractions) : NoClampedDraw(in)}
    /\ loc = [stage |-> "entry"]
    /\ err = "none"

\* lines 88-90
DrawL2G ==
    /\ pc = "L2G" /\ err = "none"
    /\ \E z \in RandNormal(mP.nG, mP.nG) :
         mP' = Assign(mP, "L2G",
                  ZeroDiag([c \in Cells(mP.nG, mP.nG) |->
                              L2GEntry(mP.L2Gmu, mP.L2Gstd, z[c])]))
    /\ pc' = "sparsity"
    /\ UNCHANGED <<loc, err>>

\* lines 93-100.  loc.before keeps the matrix as it was at line 92.
SparsityCorrection ==
    /\ pc = "sparsity" /\ err = "none"
    /\ LET n == mP.nG
           numZero == NumZero(mP.L2G, n)
           numToKill == NumToKill(mP.L2Gfr, n, numZero)
       IN /\ IF numToKill > 0
             THEN \E randList \in RandLess(n * n, 1, numToKill, n * n - n - numZero) :
                    mP' = [mP EXCEPT !.L2G =
                             ReshapeF(KillSelected(FlattenC(mP.L2G, n), randList), n, 1)]
             ELSE mP' = [mP EXCEPT !.L2G = ReshapeF(mP.L2G, n, 2)]
          /\ loc' = [stage |-> "corrected", numZero |-> numZero,
                     numToKill |-> numToKill, before |-> mP.L2G]
    /\ pc' = "gabaSens"
    /\ err' = err

NextL2G ==
    \/ DrawL2G
    \/ SparsityCorrection

SpecL2G == InitL2G /\ [][NextL2G]_vars

\* C13: the sparsity-correction pass only sets entries of L2G to 0: after
\* lines 95-100 every L2G[i,j] is 0 or the value L2G[i,j] had before the pass,
\* whether or not numToKill > 0 (no surviving entry changes value or moves, so
\* rows stay destinations and columns stay sources).
C13_OnlyZeroes ==
    pc = "gabaSens" =>
        \A c \in Cells(mP.nG, mP.nG) : mP.L2G[c] \in {0, loc.before[c]}

\* the std of at most one of L2R, L2P, L2L, L2PI is non-zero in one run
LateralStds ==
    { st \in [{"L2Rstd", "L2Pstd", "L2Lstd", "L2PIstd"} -> {0, MaxStd}] :
        Cardinality({f \in DOMAIN st : st[f] > 0}) <= 1 }

InputsLateral ==
    { [nG |-> in.nG, L2Gmu |-> in.L2Gmu, L2Gstd |-> in.L2Gstd, L2Gfr |-> in.L2Gfr,
       GsensMu |-> MaxMu, GsensStd |-> gs,
       L2Rmult |-> MaxMu, L2Pmult |-> MaxMu, L2Lmult |-> MaxMu,
       L2Rstd |-> st.L2Rstd, L2Pstd |-> st.L2Pstd, L2Lstd |-> st.L2Lstd,
       L2PIstd |-> st.L2PIstd] :
         in \in InputsL2G(MaxSmall, {<<0, 1>>, <<1, 2>>, <<1, 1>>}), gs \in Stds, st \in LateralStds }

InitLateral ==
    /\ pc = "L2G"
    /\ mP \in InputsLateral
    /\ loc = [stage |-> "entry"]
    /\ err = "none"

\* line 107 on one entry
GabaSensEntry(mu, sd, z) == mu + sd * z

\* line 108: mP.L2G * np.tile( gabaSens, (1, mP.nG) ): row i times gabaSens[i]
RowScaled(M, gabaSens) == [c \in DOMAIN M |-> M[c] * gabaSens[<<c[1], 0>>]]

\* line 111: mP.L2G *= mP.GsensMu
Scaled(M, k) == [c \in DOMAIN M |-> M[c] * k]

\* lines 107-111
GabaSens ==
    /\ pc = "gabaSens" /\ err = "none"
    /\ \E z \in RandNormal(mP.nG, 1) :
         LET gabaSens == [c \in Cells(mP.nG, 1) |->
                            GabaSensEntry(mP.GsensMu, mP.GsensStd, z[c])]
         IN /\ loc' = [stage |-> "lateral", numToKill |-> loc.numToKill,
                       L2GgabaSens |-> RowScaled(mP.L2G, gabaSens)]
            /\ mP' = [mP EXCEPT !.L2G = Scaled(mP.L2G, mP.GsensMu)]
    /\ pc' = "L2R"
    /\ err' = err

\* lines 114, 116, 117, 118: np.maximum(0, mult + std * normal) * L2GgabaSens
LateralFrom(mult, sd, z, L2GgabaSens) ==
    [c \in DOMAIN L2GgabaSens |-> Max0(mult + sd * z[c]) * L2GgabaSens[c]]

\* line 114
DrawL2R ==
    /\ pc = "L2R" /\ err = "none"
    /\ \E z \in RandNormal(mP.nG, mP.nG) :
         mP' = Assign(mP, "L2R", LateralFrom(mP.L2Rmult, mP.L2Rstd, z, loc.L2GgabaSens))
    /\ pc' = "L2P"
    /\ UNCHANGED <<loc, err>>

\* line 116
DrawL2P ==
    /\ pc = "L2P" /\ err = "none"
    /\ \E z \in RandNormal(mP.nG, mP.nG) :
         mP' = Assign(mP, "L2P", LateralFrom(mP.L2Pmult, mP.L2Pstd, z, loc.L2GgabaSens))
    /\ pc' = "L2L"
    /\ UNCHANGED <<loc, err>>

\* line 117
DrawL2L ==
    /\ pc = "L2L" /\ err = "none"
    /\ \E z \in RandNormal(mP.nG, mP.nG) :
         mP' = Assign(mP, "L2L", LateralFrom(mP.L2Lmult, mP.L2Lstd, z, loc.L2GgabaSens))
    /\ pc' = "L2PI"
    /\ UNCHANGED <<loc, err>>

\* line 118 (the mean is L2Lmult in the source)
DrawL2PI ==
    /\ pc = "L2PI" /\ err = "none"
    /\ \E z \in RandNormal(mP.nG, mP.nG) :
         mP' = Assign(mP, "L2PI", LateralFrom(mP.L2Lmult, mP.L2PIstd, z, loc.L2GgabaSens))
    /\ pc' = "doneLateral"
    /\ UNCHANGED <<loc, err>>

NextLateral ==
    \/ DrawL2G
    \/ SparsityCorrection
    \/ GabaSens
    \/ DrawL2R
    \/ DrawL2P
    \/ DrawL2L
    \/ DrawL2PI

SpecLateral == InitLateral /\ [][NextLateral]_vars

\* the number of non-zero off-diagonal entries of an n x n matrix
OffDiagNonZero(M, n) == Cardinality({c \in Cells(n, n) : c[1] # c[2] /\ M[c] # 0})

\* round(a / d), halves up
Round(a, d) == (2 * a + d) \div (2 * d)

Abs(x) == IF x < 0 THEN -x ELSE x

\* C4: once the sparsity correction is done, the number of non-zero
\* off-diagonal entries of L2G is within 1 of round(L2Gfr * (nG^2 - nG)).
C4_FillRatioWithinOne ==
    pc = "gabaSens" =>
       Abs(OffDiagNonZero(mP.L2G, mP.nG)
             - Round(mP.L2Gfr[1] * (mP.nG * mP.nG - mP.nG), mP.L2Gfr[2])) <= 1

\* the fields listed by the non-negativity claim that hold integers; L2PI is
\* the integer matrix of line 118 until line 150 replaces it
IntWeightFields ==
    {"F2R", "R2G", "R2P", "R2L", "L2G", "L2R", "L2P", "L2L", "P2K", "PI2K", "K2E"}
       \cup (IF "G2PI" \in DOMAIN mP THEN {} ELSE {"L2PI"})

\* the listed fields that went through the division of line 146
QuotientWeightFields == IF "G2PI" \in DOMAIN mP THEN {"G2PI", "L2PI", "R2PI"} ELSE {}

\* C1: every entry of every generated weight matrix and connection vector
\* is >= 0.
C1_AllEntriesNonNegative ==
    /\ \A f \in IntWeightFields \cap DOMAIN mP : \A c \in DOMAIN mP[f] : mP[f][c] >= 0
    /\ \A f \in QuotientWeightFields \cap DOMAIN mP :
          \A c \in DOMAIN mP[f] : mP[f][c].den > 0 /\ mP[f][c].num >= 0

\* the diagonal of an n x n matrix is exactly zero
ZeroDiagonal(M, n) == \A i \in Idx(n) : M[<<i, i>>] = 0

\* C3: L2G and every matrix scaled from it (L2GgabaSens, L2R, L2P, L2L) has
\* an exactly-zero diagonal, whether or not the sparsity correction branch
\* was taken.
C3_ZeroDiagonal ==
    /\ \A f \in {"L2G", "L2R", "L2P", "L2L"} \cap DOMAIN mP : ZeroDiagonal(mP[f], mP.nG)
    /\ "L2GgabaSens" \in DOMAIN loc => ZeroDiagonal(loc.L2GgabaSens, mP.nG)

\* a run that took the correction branch, which set an entry to 0, kept a
\* non-zero entry of L2G and of the scaled matrices, and reached the end of
\* the slice
C3_Witness ==
    /\ pc = "doneLateral"
    /\ loc.numToKill > 0
    /\ \E c \in Cells(mP.nG, mP.nG) : mP.L2G[c] # 0 /\ mP.L2R[c] # 0 /\ mP.L2L[c] # 0
    /\ \E c \in Cells(mP.nG, mP.nG) : c[1] # c[2] /\ mP.L2G[c] = 0

----------------------------------------------------------------------------
(* Lines 121-177 and 196-198: the masked and capped weights P2K, PI2K, K2E  *)
(* and the row-normalised G2PI with what is computed from it.  L2G, R2PIcol *)
(* and octo2G are computed by lines outside the slice and are inputs here.  *)

\* x / d in floating point, d >= 0: kept as the pair; 0/0 is NaN, x/0 is Inf
Div(x, d) == [num |-> x, den |-> d]

IsFinite(q) == q.den # 0

IsZeroQ(q) == q.den # 0 /\ q.num = 0

\* the sum of f[0], ..., f[m - 1]
RECURSIVE SumTo(_, _)
SumTo(f, m) == IF m = 0 THEN 0 ELSE SumTo(f, m - 1) + f[m - 1]

\* lines 125-128, 159-161, 175-177 on one entry: clamp, mask, cap
CappedEntry(mu, sd, z, conn, hebMax) ==
    LET w == Max0(mu + sd * z) * B2I(conn)
    IN IF w > hebMax THEN hebMax ELSE w

\* lines 144-145 on one entry: clamp and mask
MaskedEntry(mu, sd, z, conn) == Max0(sd * z + mu) * B2I(conn)

\* line 146: mP.G2PI /= np.tile(mP.G2PI.sum(axis=1).reshape(-1, 1), ...)
RowNormalize(M, n, m) ==
    [c \in Cells(n, m) |-> Div(M[c], RowSumTo(M, c[1], m))]

\* line 150: np.matmul(mP.G2PI, mP.L2G); the entries of a row of G2PI share
\* their denominator
MatMul(G, L, n, m) ==
    [c \in Cells(n, m) |->
       LET term == [k \in Idx(m) |-> G[<<c[1], k>>].num * L[<<k, c[2]>>]]
       IN Div(SumTo(term, m), G[<<c[1], 0>>].den)]

\* lines 152 and 196: G * v.T for a column vector v
TimesRow(G, v, k) == [c \in DOMAIN G |-> Div(G[c].num * k * v[<<c[2], 0>>], G[c].den)]

\* line 198: mP.octo2PIwts.sum(axis=1) / mP.G2PIconn.sum(axis=1)
RowAverage(W, conn, n, m) ==
    [i \in Idx(n) |->
       LET num == [k \in Idx(m) |-> W[<<i, k>>].num]
           cnt == [k \in Idx(m) |-> B2I(conn[<<i, k>>])]
       IN Div(SumTo(num, m), W[<<i, 0>>].den * SumTo(cnt, m))]

\* the lateral matrices and column vectors the slice is given
ConstMatrix(n, v) == [c \in Cells(n, n) |-> IF c[1] = c[2] THEN 0 ELSE v]

ConstColumn(n, v) == [c \in Cells(n, 1) |-> v]

InputsPI ==
    { [nPI |-> nPI, nG |-> nG, nK |-> 1, nP |-> 1, nE |-> 1,
       KperPfrMu |-> <<1, 2>>, P2Kmu |-> MaxMu, P2Kstd |-> MaxStd, hebMaxPK |-> MaxMu,
       GperPIfrMu |-> fr, G2PImu |-> mu, G2PIstd |-> sd,
       L2G |-> ConstMatrix(nG, l), R2PIcol |-> ConstColumn(nG, r),
       KperPIfrMu |-> <<1, 2>>, PI2Kmu |-> MaxMu, PI2Kstd |-> MaxStd,
       hebMaxPIK |-> MaxMu,
       KperEfrMu |-> <<1, 2>>, K2Emu |-> MaxMu, K2Estd |-> MaxStd, hebMaxKE |-> MaxMu,
       octo2PImult |-> MaxMu, octo2G |-> ConstColumn(nG, MaxMu)] :
         nPI \in 0..MaxSmall, nG \in 1..MaxSmall, fr \in {<<1, 2>>, <<1, 1>>},
         mu \in {1}, sd \in {0, MaxStd}, l \in {0, 1}, r \in {-1, 1} }

InitPI ==
    /\ pc = "P2K"
    /\ mP \in InputsPI
    /\ loc = [stage |-> "entry"]
    /\ err = "none"

\* lines 122-128
DrawP2K ==
    /\ pc = "P2K" /\ err = "none"
    /\ \E conn \in RandLess(mP.nK, mP.nP, mP.KperPfrMu[1], mP.KperPfrMu[2]) :
       \E z \in RandNormal(mP.nK, mP.nP) :
         /\ loc' = [stage |-> "masked", P2KconnMatrix |-> conn]
         /\ mP' = Assign(mP, "P2K",
                    [c \in Cells(mP.nK, mP.nP) |->
                       CappedEntry(mP.P2Kmu, mP.P2Kstd, z[c], conn[c], mP.hebMaxPK)])
    /\ pc' = "G2PIconn"
    /\ err' = err

\* line 143
DrawG2PIconn ==
    /\ pc = "G2PIconn" /\ err = "none"
    /\ \E conn \in RandLess(mP.nPI, mP.nG, mP.GperPIfrMu[1], mP.GperPIfrMu[2]) :
         mP' = Assign(mP, "G2PIconn", conn)
    /\ pc' = "G2PI"
    /\ UNCHANGED <<loc, err>>

\* lines 144-146
DrawG2PI ==
    /\ pc = "G2PI" /\ err = "none"
    /\ \E z \in RandNormal(mP.nPI, mP.nG) :
         LET raw == [c \in Cells(mP.nPI, mP.nG) |->
                       MaskedEntry(mP.G2PImu, mP.G2PIstd, z[c], mP.G2PIconn[c])]
         IN /\ mP' = Assign(mP, "G2PI", RowNormalize(raw, mP.nPI, mP.nG))
            /\ loc' = Assign(loc, "rawG2PI", raw)
    /\ pc' = "maskPI"
    /\ err' = err

\* lines 150-152
MaskPI ==
    /\ pc = "maskPI" /\ err = "none"
    /\ mP' = Assign(Assign(mP, "L2PI", MatMul(mP.G2PI, mP.L2G, mP.nPI, mP.nG)),
                    "R2PI", TimesRow(mP.G2PI, mP.R2PIcol, 1))
    /\ pc' = "PI2K"
    /\ UNCHANGED <<loc, err>>

\* lines 157-161
DrawPI2K ==
    /\ pc = "PI2K" /\ err = "none"
    /\ mP.nPI > 0
    /\ \E conn \in RandLess(mP.nK, mP.nPI, mP.KperPIfrMu[1], mP.KperPIfrMu[2]) :
       \E z \in RandNormal(mP.nK, mP.nPI) :
         mP' = Assign(Assign(mP, "PI2Kconn", conn), "PI2K",
                    [c \in Cells(mP.nK, mP.nPI) |->
                       CappedEntry(mP.PI2Kmu, mP.PI2Kstd, z[c], conn[c], mP.hebMaxPIK)])
    /\ pc' = "K2E"
    /\ UNCHANGED <<loc, err>>

\* line 157, the test fails
SkipPI2K ==
    /\ pc = "PI2K" /\ err = "none"
    /\ ~(mP.nPI > 0)
    /\ pc' = "K2E"
    /\ UNCHANGED <<mP, loc, err>>

\* lines 172-177
DrawK2E ==
    /\ pc = "K2E" /\ err = "none"
    /\ \E conn \in RandLess(mP.nE, mP.nK, mP.KperEfrMu[1], mP.KperEfrMu[2]) :
       \E z \in RandNormal(mP.nE, mP.nK) :
         mP' = Assign(Assign(mP, "K2EconnMatrix", conn), "K2E",
                    [c \in Cells(mP.nE, mP.nK) |->
                       CappedEntry(mP.K2Emu, mP.K2Estd, z[c], conn[c], mP.hebMaxKE)])
    /\ pc' = "octo2PI"
    /\ UNCHANGED <<loc, err>>

\* lines 196-198
Octo2PI ==
    /\ pc = "octo2PI" /\ err = "none"
    /\ LET wts == TimesRow(mP.G2PI, mP.octo2G, mP.octo2PImult)
       IN mP' = Assign(Assign(mP, "octo2PIwts", wts),
                       "octo2PI", RowAverage(wts, mP.G2PIconn, mP.nPI, mP.nG))
    /\ pc' = "donePI"
    /\ UNCHANGED <<loc, err>>

NextPI ==
    \/ DrawP2K
    \/ DrawG2PIconn
    \/ DrawG2PI
    \/ MaskPI
    \/ DrawPI2K
    \/ SkipPI2K
    \/ DrawK2E
    \/ Octo2PI

SpecPI == InitPI /\ [][NextPI]_vars

\* C2: for every (mask, weight) pair, the weight is 0 wherever the mask is
\* 0, after the ceiling clamp and the row normalisation.
C2_MaskedZeroStaysZero ==
    /\ "F2R" \in DOMAIN mP =>
          \A c \in DOMAIN mP.F2R : mP.F2Rbinary[c] = 0 => mP.F2R[c] = 0
    /\ "P2K" \in DOMAIN mP =>
          \A c \in DOMAIN mP.P2K : ~loc.P2KconnMatrix[c] => mP.P2K[c] = 0
    /\ "G2PI" \in DOMAIN mP =>
          \A c \in DOMAIN mP.G2PI : ~mP.G2PIconn[c] => IsZeroQ(mP.G2PI[c])
    /\ "PI2K" \in DOMAIN mP =>
          \A c \in DOMAIN mP.PI2K : ~mP.PI2Kconn[c] => mP.PI2K[c] = 0
    /\ "K2E" \in DOMAIN mP =>
          \A c \in DOMAIN mP.K2E : ~mP.K2EconnMatrix[c] => mP.K2E[c] = 0

\* the fields computed from the normalised G2PI, by row of G2PI
RowOfG2PIFinite(i) ==
    /\ \A f \in {"G2PI", "L2PI", "R2PI", "octo2PIwts"} \cap DOMAIN mP :
          \A j \in Idx(mP.nG) : IsFinite(mP[f][<<i, j>>])
    /\ "octo2PI" \in DOMAIN mP => IsFinite(mP.octo2PI[i])

\* C6: a row of the masked G2PI whose raw sum is 0 is left all-zero by the
\* row normalisation, and neither G2PI nor L2PI, R2PI, octo2PIwts, octo2PI
\* holds a NaN or Inf in that row.
C6_ZeroRowStaysZero ==
    "G2PI" \in DOMAIN mP =>
       \A i \in Idx(mP.nPI) :
          RowSumTo(loc.rawG2PI, i, mP.nG) = 0 =>
             /\ \A j \in Idx(mP.nG) : IsZeroQ(mP.G2PI[<<i, j>>])
             /\ RowOfG2PIFinite(i)

----------------------------------------------------------------------------
(* Lines 62-71 and 212-227: the spontaneous rates Rspont and the gamma      *)
(* noise vectors noiseRvec, noisePvec, noiseLvec.                           *)

RECURSIVE Pow10(_)
Pow10(k) == IF k = 0 THEN 1 ELSE 10 * Pow10(k - 1)

\* a Decimal is [c, e], the number c * 10^e; Decimal(n) of an integer n
Dec(n) == [c |-> n, e |-> 0]

\* the one representation of a Decimal's value: no trailing zero in c
RECURSIVE DecNormal(_)
DecNormal(X) ==
    IF X.c = 0 THEN [c |-> 0, e |-> 0]
    ELSE IF X.c % 10 = 0 THEN DecNormal([c |-> X.c \div 10, e |-> X.e + 1])
    ELSE X

\* the least k >= 0 that gives N * 10^k / D all of the context's digits
RECURSIVE DigitsShift(_, _, _)
DigitsShift(N, D, k) ==
    IF (N * Pow10(k)) \div D >= Pow10(DecimalPrec - 1) THEN k
    ELSE DigitsShift(N, D, k + 1)

\* X / Y in the context of line 25, for X.c # 0, Y.c # 0 and |X / Y| < 10^prec:
\* the quotient rounded half-even to prec significant digits
DecDiv(X, Y) ==
    LET N == Abs(X.c)
        D == Abs(Y.c)
        sign == IF (X.c < 0) = (Y.c < 0) THEN 1 ELSE -1
        k == DigitsShift(N, D, 0)
        q == (N * Pow10(k)) \div D
        r == N * Pow10(k) - q * D
        up == 2 * r > D \/ (2 * r = D /\ q % 2 = 1)
    IN DecNormal([c |-> sign * (IF up THEN q + 1 ELSE q), e |-> X.e - Y.e - k])

\* a gamma draw that takes any shape and scale
GammaTakesAll(a, b) == FALSE

\* np.random.gamma(a, scale=b, ...) refuses a negative shape or scale
GammaRejects(a, b) == a.c < 0 \/ b.c < 0

\* lines 68-70, 213-215, 219-221, 225-227 up to the draw:
\*   a = Decimal(m)/Decimal(s); b = Decimal(m)/a; np.random.gamma(a, scale=b, ..)
\* gives the exception raised, or "none" and the shape and scale of the draw
GammaParams(m, s) ==
    IF s = 0
    THEN [raised |-> IF m = 0 THEN "InvalidOperation" ELSE "DivisionByZero"]
    ELSE IF m = 0
    THEN \* a is zero and b = 0/0
         [raised |-> "InvalidOperation"]
    ELSE LET a == DecDiv(Dec(m), Dec(s))
             b == DecDiv(Dec(m), a)
         IN IF GammaRejects(a, b)
            THEN [raised |-> "ValueError"]
            ELSE [raised |-> "none", shape |-> a, scale |-> b]

\* the values a gamma draw is given in the model: one below and one above
\* the outlier ceiling
GammaDraws == {1, OutlierCeiling + 1}

\* what follows the draw g before the assignment: line 71 adds spontRbase,
\* lines 217 and 223 set the entries above 15 to 0, line 227 has no such step
AfterDraw(step, g) ==
    [c \in DOMAIN g |->
       CASE step = "addBase" -> mP.spontRbase + g[c]
         [] step = "dropOutliers" -> IF g[c] > OutlierCeiling THEN 0 ELSE g[c]
         [] step = "asDrawn" -> g[c]]

GammaMeans == 0..MaxMu

GammaStds == (-1)..MaxStd

InputsGamma ==
    { [nG |-> 1, nR |-> 1, nP |-> 1, spontRdistFlag |-> flag, spontRbase |-> MaxMu,
       spontRmu |-> m[1], spontRstd |-> sd[1], noiseR |-> m[2], RnoiseStd |-> sd[2],
       noiseP |-> m[3], PnoiseStd |-> sd[3], noiseL |-> m[4], LnoiseStd |-> sd[4]] :
         flag \in {1, 2}, m \in [1..4 -> GammaMeans], sd \in [1..4 -> GammaStds] }

InitGamma ==
    /\ pc = "Rspont"
    /\ mP \in InputsGamma
    /\ loc = [stage |-> "entry"]
    /\ err = "none"

\* lines 63-66: the gaussian case
RspontGaussian ==
    /\ pc = "Rspont" /\ err = "none"
    /\ mP.spontRdistFlag = 1
    /\ \E z \in RandNormal(mP.nG, 1) :
         mP' = Assign(mP, "Rspont",
                  [c \in Cells(mP.nG, 1) |-> Max0(mP.spontRmu + mP.spontRstd * z[c])])
    /\ pc' = "noiseRvec"
    /\ UNCHANGED <<loc, err>>

\* a gamma vector: the parameters from (m, s), the draw of n values, the
\* step after the draw, and the assignment to mP.<name>
GammaVector(name, m, s, n, step, next) ==
    LET p == GammaParams(m, s)
    IN IF p.raised # "none"
       THEN /\ err' = p.raised
            /\ pc' = "raised"
            /\ UNCHANGED <<mP, loc>>
       ELSE \E g \in [Cells(n, 1) -> GammaDraws] :
            /\ mP' = Assign(mP, name, AfterDraw(step, g))
            /\ loc' = Assign(loc, name, [shape |-> p.shape, scale |-> p.scale])
            /\ pc' = next
            /\ err' = err

\* lines 67-71: the gamma case
RspontGamma ==
    /\ pc = "Rspont" /\ err = "none"
    /\ mP.spontRdistFlag # 1
    /\ GammaVector("Rspont", mP.spontRmu, mP.spontRstd, mP.nG, "addBase", "noiseRvec")

\* lines 213-217
NoiseRvec ==
    /\ pc = "noiseRvec" /\ err = "none"
    /\ GammaVector("noiseRvec", mP.noiseR, mP.RnoiseStd, mP.nR, "dropOutliers",
                   "noisePvec")

\* lines 219-223 (the size is (nR, 1) in the source)
NoisePvec ==
    /\ pc = "noisePvec" /\ err = "none"
    /\ GammaVector("noisePvec", mP.noiseP, mP.PnoiseStd, mP.nR, "dropOutliers",
                   "noiseLvec")

\* lines 225-227
NoiseLvec ==
    /\ pc = "noiseLvec" /\ err = "none"
    /\ GammaVector("noiseLvec", mP.noiseL, mP.LnoiseStd, mP.nG, "asDrawn", "doneGamma")

NextGamma ==
    \/ RspontGaussian
    \/ RspontGamma
    \/ NoiseRvec
    \/ NoisePvec
    \/ NoiseLvec

SpecGamma == InitGamma /\ [][NextGamma]_vars

GammaVectors == {"Rspont", "noiseRvec", "noisePvec", "noiseLvec"}

MeanOf(X) ==
    CASE X = "Rspont" -> mP.spontRmu
      [] X = "noiseRvec" -> mP.noiseR
      [] X = "noisePvec" -> mP.noiseP
      [] X = "noiseLvec" -> mP.noiseL

StdOf(X) ==
    CASE X = "Rspont" -> mP.spontRstd
      [] X = "noiseRvec" -> mP.RnoiseStd
      [] X = "noisePvec" -> mP.PnoiseStd
      [] X = "noiseLvec" -> mP.LnoiseStd

\* X is drawn from a gamma distribution in this run
GammaDistributed(X) == X = "Rspont" => mP.spontRdistFlag # 1

\* the positions of a run that has completed the lines of X
PcAfter(X) ==
    CASE X = "Rspont" -> {"noiseRvec", "noisePvec", "noiseLvec", "doneGamma"}
      [] X = "noiseRvec" -> {"noisePvec", "noiseLvec", "doneGamma"}
      [] X = "noisePvec" -> {"noiseLvec", "doneGamma"}
      [] X = "noiseLvec" -> {"doneGamma"}

\* the Decimal X is the rational p / q, q > 0
DecEqRat(X, p, q) ==
    IF X.e >= 0 THEN X.c * Pow10(X.e) * q = p ELSE X.c * q = p * Pow10(-X.e)

\* C8: for every gamma-distributed vector with mean m and std s > 0, the
\* shape and scale passed to the gamma draw are (m/s)^2 and s^2/m.
C8_MomentMatchedGamma ==
    \A X \in GammaVectors \cap DOMAIN loc :
       StdOf(X) > 0 =>
          /\ DecEqRat(loc[X].shape, MeanOf(X) * MeanOf(X), StdOf(X) * StdOf(X))
          /\ DecEqRat(loc[X].scale, StdOf(X) * StdOf(X), MeanOf(X))

GammaErrors == {"DivisionByZero", "InvalidOperation", "ValueError"}

\* C9: if the std of a gamma-distributed vector is <= 0 the call raises, no
\* value is assigned to the vector, and no gamma draw is made for it.
C9_NonPositiveStdRaises ==
    \A X \in GammaVectors :
       (GammaDistributed(X) /\ StdOf(X) <= 0) =>
          /\ X \notin DOMAIN mP
          /\ X \notin DOMAIN loc
          /\ pc \notin PcAfter(X)
          /\ pc = "raised" => err \in GammaErrors

\* the call raised at noiseRvec, whose std is negative, after Rspont was
\* drawn from a gamma distribution
C9_Witness ==
    /\ pc = "raised"
    /\ err = "ValueError"
    /\ mP.spontRdistFlag # 1
    /\ "Rspont" \in DOMAIN mP
    /\ mP.RnoiseStd < 0
    /\ mP.noiseR > 0

----------------------------------------------------------------------------
(* The whole body, lines 27-265.  Every array is modelled by its shape, so  *)
(* mP.<field> is <<rows, cols>> (or <<rows>>), and the run by the fields it *)
(* has assigned and the exception that ended it.                            *)

Set(line, field, rows, cols) ==
    [kind |-> "set", line |-> line, field |-> field, rows |-> rows, cols |-> cols]

Gamma(line, field, rows, mean, std) ==
    [kind |-> "gamma", line |-> line, field |-> field, rows |-> rows, cols |-> "1",
     mean |-> mean, std |-> std]

\* the assignments to mP in the order of the source, with the size fields
\* that give each array its shape
Statements ==
    << [kind |-> "mask", line |-> 28, field |-> "F2Rbinary", rows |-> "nR", cols |-> "nF"],
       Set(59, "F2R", "nR", "nF"),
       [kind |-> "rspont", line |-> 63, field |-> "Rspont", rows |-> "nG", cols |-> "1",
        mean |-> "spontRmu", std |-> "spontRstd"],
       Set(74, "R2G", "nG", "1"),
       Set(78, "R2P", "nG", "1"),
       Set(79, "R2L", "nG", "1"),
       Set(82, "R2PIcol", "nG", "1"),
       Set(88, "L2G", "nG", "nG"),
       Set(114, "L2R", "nG", "nG"),
       Set(116, "L2P", "nG", "nG"),
       Set(117, "L2L", "nG", "nG"),
       Set(118, "L2PI", "nG", "nG"),
       Set(125, "P2K", "nK", "nP"),
       Set(143, "G2PIconn", "nPI", "nG"),
       Set(144, "G2PI", "nPI", "nG"),
       Set(150, "L2PI", "nPI", "nG"),
       Set(152, "R2PI", "nPI", "nG"),
       [kind |-> "ifPI", line |-> 157, field |-> "PI2Kconn", rows |-> "nK", cols |-> "nPI"],
       [kind |-> "ifPI", line |-> 159, field |-> "PI2K", rows |-> "nK", cols |-> "nPI"],
       Set(172, "K2EconnMatrix", "nE", "nK"),
       Set(175, "K2E", "nE", "nK"),
       Set(182, "octo2G", "nG", "1"),
       Set(185, "octo2K", "nK", "1"),
       Set(188, "octo2P", "nG", "1"),
       Set(189, "octo2L", "nG", "1"),
       Set(190, "octo2R", "nG", "1"),
       Set(196, "octo2PIwts", "nPI", "nG"),
       Set(198, "octo2PI", "nPI", "none"),
       Set(201, "octo2E", "nE", "1"),
       Set(209, "noisePIvec", "nPI", "1"),
       Set(210, "noiseKvec", "nK", "1"),
       Set(211, "noiseEvec", "nE", "1"),
       Gamma(213, "noiseRvec", "nR", "noiseR", "RnoiseStd"),
       Gamma(219, "noisePvec", "nR", "noiseP", "PnoiseStd"),
       Gamma(225, "noiseLvec", "nG", "noiseL", "LnoiseStd"),
       Set(229, "kGlobalDampVec", "nK", "1") >>

\* the fields the body adds to mP
DerivedFields == {Statements[k].field : k \in DOMAIN Statements}

\* the shape of the array a statement assigns
ShapeOf(st) ==
    IF st.cols = "none" THEN <<mP[st.rows]>>
    ELSE IF st.cols = "1" THEN <<mP[st.rows], 1>>
    ELSE <<mP[st.rows], mP[st.cols]>>

\* at most one of the four gamma stds is not positive in one run
PipelineStds ==
    { sd \in [{"spontRstd", "RnoiseStd", "PnoiseStd", "LnoiseStd"} -> (-1)..1] :
        Cardinality({f \in DOMAIN sd : sd[f] <= 0}) <= 1 }

InputsPipeline ==
    { [nR |-> nR, nF |-> nF, nG |-> nG, nK |-> nK, nP |-> nP, nPI |-> nPI, nE |-> 1,
       RperFFrMu |-> fr, makeFeaturesOrthogonalFlag |-> flag, RperFRawNum |-> 1,
       spontRdistFlag |-> dist,
       spontRmu |-> MaxMu, noiseR |-> MaxMu, noiseP |-> MaxMu, noiseL |-> MaxMu,
       spontRstd |-> sd.spontRstd, RnoiseStd |-> sd.RnoiseStd,
       PnoiseStd |-> sd.PnoiseStd, LnoiseStd |-> sd.LnoiseStd] :
         nR \in 1..MaxPop, nF \in 1..MaxPop, nG \in 1..MaxPop, nK \in 1..MaxPop,
         nP \in 1..MaxPop, nPI \in 0..1, fr \in {0, 1}, flag \in {FALSE},
         dist \in {1, 2}, sd \in PipelineStds }

Init ==
    /\ pc = "body"
    /\ mP \in InputsPipeline
    /\ loc = [k |-> 1]
    /\ err = "none"

AtStatement(kind) ==
    /\ pc = "body" /\ err = "none"
    /\ loc.k \in DOMAIN Statements
    /\ Statements[loc.k].kind = kind

\* the statement assigns its array and the body goes on
Assigns(st) ==
    /\ mP' = Assign(mP, st.field, ShapeOf(st))
    /\ loc' = [loc EXCEPT !.k = @ + 1]
    /\ UNCHANGED <<pc, err>>

\* the statement raises: the call ends, mP keeps what was assigned to it
Raises(exception) ==
    /\ err' = exception
    /\ pc' = "raised"
    /\ UNCHANGED <<mP, loc>>

\* lines 28-41: the mask by probability, the flag of line 31 unset
BuildMaskProbabilistic ==
    /\ AtStatement("mask")
    /\ mP.RperFFrMu > 0
    /\ ~mP.makeFeaturesOrthogonalFlag
    /\ Assigns(Statements[loc.k])

\* lines 43-54: the mask with a fixed number per feature, nR >= 1: the
\* candidates of line 51 never run out, since nR * maxFperR >= nF * RperFRawNum
BuildMaskFixed ==
    /\ AtStatement("mask")
    /\ mP.RperFFrMu <= 0
    /\ mP.nR >= 1
    /\ Assigns(Statements[loc.k])

\* a statement that draws and assigns
BuildPlain ==
    /\ AtStatement("set")
    /\ Assigns(Statements[loc.k])

\* a gamma vector by its parameters
BuildGammaVector(st) ==
    LET p == GammaParams(mP[st.mean], mP[st.std])
    IN IF p.raised # "none" THEN Raises(p.raised) ELSE Assigns(st)

\* lines 63-71
BuildRspont ==
    /\ AtStatement("rspont")
    /\ IF mP.spontRdistFlag = 1
       THEN Assigns(Statements[loc.k])
       ELSE BuildGammaVector(Statements[loc.k])

\* lines 213-227
BuildGammaNoise ==
    /\ AtStatement("gamma")
    /\ BuildGammaVector(Statements[loc.k])

\* lines 157-161
BuildIfPI ==
    /\ AtStatement("ifPI")
    /\ IF mP.nPI > 0
       THEN Assigns(Statements[loc.k])
       ELSE /\ loc' = [loc EXCEPT !.k = @ + 1]
            /\ UNCHANGED <<pc, mP, err>>

\* line 265
Return ==
    /\ pc = "body" /\ err = "none"
    /\ loc.k = Len(Statements) + 1
    /\ pc' = "returned"
    /\ UNCHANGED <<mP, loc, err>>

Next ==
    \/ BuildMaskProbabilistic
    \/ BuildMaskFixed
    \/ BuildPlain
    \/ BuildRspont
    \/ BuildGammaNoise
    \/ BuildIfPI
    \/ Return

Spec == Init /\ [][Next]_vars

\* C10: when the call ends with an exception, the caller's parameter record
\* carries none of the derived fields.
C10_NoPartialModel ==
    pc = "raised" => DOMAIN mP \cap DerivedFields = {}

\* the population each per-neuron vector describes
PopulationOf ==
    [Rspont |-> "nR", noiseRvec |-> "nR", noisePvec |-> "nP", noiseLvec |-> "nG",
     noiseKvec |-> "nK", kGlobalDampVec |-> "nK", noiseEvec |-> "nE",
     noisePIvec |-> "nPI"]

\* C11: in the returned model every per-neuron vector has one row per neuron
\* of the population it describes and one column: Rspont and noiseRvec nR rows,
\* noisePvec nP, noiseLvec nG, noiseKvec and kGlobalDampVec nK, noiseEvec nE,
\* noisePIvec nPI, also when the population sizes differ from each other.
C11_VectorPerNeuron ==
    pc = "returned" =>
        \A f \in DOMAIN PopulationOf : mP[f] = <<mP[PopulationOf[f]], 1>>

=============================================================================
